---- MODULE Spec2Model ----
(***************************************************************************)
(* Model of colab/verify_environment.py: ColabEnvironmentChecker and main. *)
(*                                                                         *)
(* The program is one sequential run: four check groups, a summary with    *)
(* the readiness verdict, and main's exit status.  Every subprocess the    *)
(* program spawns is split into a spawn step (the environment chooses what *)
(* the child does) and a return step (the code turns that into a result).  *)
(*                                                                         *)
(* Strings of the program are not ASCII; the model writes each display     *)
(* string as an ASCII token and gives the original next to it.  A text     *)
(* the code parses or trims (a command's stdout) is a sequence of one-     *)
(* character strings; a message is a sequence of tokens.                   *)
(***************************************************************************)
EXTENDS Integers, Sequences, FiniteSets, TLC

VARIABLES
    results,       \* self.results: sequence of (test_name, passed, message)
    passed,        \* self.passed
    failed,        \* self.failed
    pc,            \* position of the run
    proc,          \* the subprocess spawned last: what it does, and whether it is still running
    cwd,           \* the process working directory, a path
    original_dir,  \* the local original_dir of check_aeonsage_installation
    fs,            \* the filesystem below the start directory (read-only)
    gpu_env,       \* 'COLAB_GPU' in os.environ
    verdict,       \* the branch run_comprehensive_test took
    success,       \* the value run_comprehensive_test returned
    exit_code,     \* the value main returned
    hints          \* whether main printed the remediation block

vars == <<results, passed, failed, pc, proc, cwd, original_dir, fs, gpu_env,
          verdict, success, exit_code, hints>>

-----------------------------------------------------------------------------
(* Bounds of the environment the run is checked in. *)

\* df prints at most this many lines
MaxLines == 3
\* the data row of df has at most this many fields
MaxFields == 5

-----------------------------------------------------------------------------
(* Display strings. *)

N_PYTHON  == "Python version"      \* "Python 版本"
N_OS      == "operating system"    \* "操作系统"
N_ARCH    == "architecture"        \* "系统架构"
N_GPU     == "GPU support"         \* "GPU 支持"
N_DISK    == "disk space"          \* "磁盘空间"
N_NODE    == "Node.js install"     \* "Node.js 安装"
N_NPM     == "npm install"         \* "npm 安装"
N_PNPM    == "pnpm install"        \* "pnpm 安装"
N_GIT     == "Git install"         \* "Git 安装"
N_PROJECT == "project directory"   \* "项目目录"
N_PACKAGE == "package.json"        \* "package.json"
N_DEPS    == "dependencies"        \* "依赖安装"
N_DIST    == "build output"        \* "构建输出"
N_CLI     == "CLI tool"            \* "CLI 工具"
N_CLIHELP == "CLI help"            \* "CLI 帮助"
N_INET    == "internet"            \* "互联网连接"
N_GITHUB  == "GitHub"              \* "GitHub 连接"
N_REG     == "npm Registry"        \* "npm Registry"

M_NOT_INSTALLED == <<"not installed">>          \* "未安装"
M_NO_DISK       == <<"no disk information">>    \* "无法获取磁盘信息"
M_TIMEOUT       == <<"command timed out">>      \* "命令执行超时"
M_EXEC_ERROR    == <<"execution error">>        \* f"执行错误: {str(e)}"
M_NOT_FOUND     == <<"not found">>              \* "未找到"
M_CANNOT_RUN    == <<"cannot execute">>         \* "无法执行"

\* f"已用: {used}, 可用: {available}"
DiskMessage(used, available) == <<"used: ">> \o used \o <<", available: ">> \o available

-----------------------------------------------------------------------------
(* Text: str.strip, str.split(sep) and str.split() on character sequences. *)

Whitespace == {" ", "\n", "\t"}

RECURSIVE LStrip(_)
LStrip(s) ==
    IF s # <<>> /\ Head(s) \in Whitespace THEN LStrip(Tail(s)) ELSE s

RECURSIVE RStrip(_)
RStrip(s) ==
    IF s # <<>> /\ s[Len(s)] \in Whitespace
    THEN RStrip(SubSeq(s, 1, Len(s) - 1))
    ELSE s

\* str.strip()
Strip(s) == RStrip(LStrip(s))

\* str.split(sep): the pieces between the separators, empty pieces kept;
\* the split of the empty text is one empty piece
RECURSIVE SplitOn(_, _)
SplitOn(s, sep) ==
    IF \A i \in 1..Len(s) : s[i] # sep
    THEN <<s>>
    ELSE LET k == CHOOSE i \in 1..Len(s) :
                      s[i] = sep /\ \A j \in 1..(i - 1) : s[j] # sep
         IN <<SubSeq(s, 1, k - 1)>> \o SplitOn(SubSeq(s, k + 1, Len(s)), sep)

\* str.split(): the maximal runs of non-whitespace, no empty piece
RECURSIVE SplitWS(_)
SplitWS(s) ==
    LET t == LStrip(s) IN
    IF t = <<>>
    THEN <<>>
    ELSE LET ends == {i \in 1..Len(t) : t[i] \in Whitespace}
             k == IF ends = {} THEN Len(t) + 1
                  ELSE CHOOSE i \in ends : \A j \in ends : i <= j
         IN <<SubSeq(t, 1, k - 1)>> \o SplitWS(SubSeq(t, k, Len(t)))

-----------------------------------------------------------------------------
(* The result aggregator. *)

\* the checker's three fields, as one value
Tally == [results |-> results, passed |-> passed, failed |-> failed]

\* a variant of log_result that counts every result as a pass
log_result_CountsAllPassed(t, test_name, ok, message) ==
    [results |-> Append(t.results, [name |-> test_name, passed |-> ok, message |-> message]),
     passed  |-> t.passed + 1,
     failed  |-> t.failed]

\* a variant of log_result that appends the result and counts nothing
log_result_CountsNothing(t, test_name, ok, message) ==
    [results |-> Append(t.results, [name |-> test_name, passed |-> ok, message |-> message]),
     passed  |-> t.passed,
     failed  |-> t.failed]

\* log_result: append the result and count it
log_result(t, test_name, ok, message) ==
    [results |-> Append(t.results, [name |-> test_name, passed |-> ok, message |-> message]),
     passed  |-> IF ok THEN t.passed + 1 ELSE t.passed,
     failed  |-> IF ok THEN t.failed ELSE t.failed + 1]

\* the checker's fields become t
Store(t) ==
    /\ results' = t.results
    /\ passed' = t.passed
    /\ failed' = t.failed

-----------------------------------------------------------------------------
(* Subprocesses. *)

\* what a spawned command can do: it cannot be launched, it never ends, or it
\* exits with a return code and a standard output
Stdouts == { <<"v", "1", "\n">>, <<" ", "2", ".", "0", "\n">> }

ProbeOutcomes ==
    {[kind |-> "launch_error", rc |-> 0, stdout |-> <<>>],
     [kind |-> "hang", rc |-> 0, stdout |-> <<>>],
     [kind |-> "exit", rc |-> 1, stdout |-> <<>>]}
    \cup {[kind |-> "exit", rc |-> 0, stdout |-> s] : s \in Stdouts}

NoProc == [cmd |-> "none", status |-> "none", kind |-> "none", rc |-> 0, stdout |-> <<>>]

Running(cmd, o) ==
    [cmd |-> cmd, status |-> "running", kind |-> o.kind, rc |-> o.rc, stdout |-> o.stdout]

Finished(p) == [p EXCEPT !.status = "finished"]

\* a variant of run_command that reports success whatever the return code
run_command_IgnoresReturnCode(p) ==
    IF p.kind = "exit" THEN <<TRUE, Strip(p.stdout)>>
    ELSE IF p.kind = "hang" THEN <<FALSE, M_TIMEOUT>>
    ELSE <<FALSE, M_EXEC_ERROR>>

\* run_command: (success, output) of a command that was spawned as p; a
\* command that never ends is cut off by timeout=30
run_command(p) ==
    IF p.kind = "exit" THEN <<p.rc = 0, Strip(p.stdout)>>
    ELSE IF p.kind = "hang" THEN <<FALSE, M_TIMEOUT>>
    ELSE <<FALSE, M_EXEC_ERROR>>

-----------------------------------------------------------------------------
(* The environment of a run. *)

START_DIR == <<"content">>
PROJECT   == "aeonsage"

\* the project path is absent, a plain file or a directory; the three entries
\* below it exist only in a directory
FileSystems ==
    {f \in [project : {"absent", "file", "dir"}, package : BOOLEAN,
            node_modules : BOOLEAN, dist : BOOLEAN] :
        f.project # "dir" => ~f.package /\ ~f.node_modules /\ ~f.dist}

\* the texts `df -h /` can print: a header line, a data row of n fields
\* (filesystem, size, used, available, use%, mount point, and further ones),
\* further lines; each line ends in a newline
FieldText(i) ==
    CASE i = 1 -> <<"d">>
      [] i = 2 -> <<"5", "G">>
      [] i = 3 -> <<"2", "G">>
      [] i = 4 -> <<"8", "G">>
      [] i = 5 -> <<"4", "%">>
      [] OTHER -> <<"/">>

RECURSIVE DataRow(_)
DataRow(n) ==
    IF n = 0 THEN <<>>
    ELSE IF n = 1 THEN FieldText(1)
    ELSE DataRow(n - 1) \o <<" ">> \o FieldText(n)

DfText(nl, nf) ==
    IF nl = 0 THEN <<>>
    ELSE <<"F", " ", "S", "\n">> \o
         (IF nl >= 2 THEN DataRow(nf) \o <<"\n">> ELSE <<>>) \o
         (IF nl >= 3 THEN [i \in 1..(2 * (nl - 2)) |-> IF i % 2 = 1 THEN "t" ELSE "\n"]
          ELSE <<>>)

DfOutcomes ==
    {[kind |-> "launch_error", rc |-> 0, stdout |-> <<>>],
     [kind |-> "hang", rc |-> 0, stdout |-> <<>>],
     [kind |-> "exit", rc |-> 1, stdout |-> <<>>]}
    \cup {[kind |-> "exit", rc |-> 0, stdout |-> DfText(nl, nf)] :
              nl \in 0..MaxLines, nf \in 0..MaxFields}

Init ==
    /\ results = <<>>
    /\ passed = 0
    /\ failed = 0
    /\ pc = "system_info"
    /\ proc = NoProc
    /\ cwd = START_DIR
    /\ original_dir = <<>>
    /\ fs \in FileSystems
    /\ gpu_env \in BOOLEAN
    /\ verdict = "none"
    /\ success = FALSE
    /\ exit_code = -1
    /\ hints = FALSE

-----------------------------------------------------------------------------
(* Group 1: system information. *)

\* lines 47-68: the four unconditional results, then df is spawned without a timeout
check_system_info ==
    /\ pc = "system_info"
    /\ LET t1 == log_result(Tally, N_PYTHON, TRUE, <<"3.10">>)
           t2 == log_result(t1, N_OS, TRUE, <<"Linux">>)
           t3 == log_result(t2, N_ARCH, TRUE, <<"64bit">>)
           t4 == log_result(t3, N_GPU, gpu_env,
                            IF gpu_env THEN <<"available">> ELSE <<"unavailable">>)
       IN Store(t4)
    /\ \E o \in DfOutcomes : proc' = Running("df -h /", o)
    /\ pc' = "df"
    /\ UNCHANGED <<cwd, original_dir, fs, gpu_env, verdict, success, exit_code, hints>>

\* lines 67-77: the tally after the disk check, for a df that was spawned as p
\* and has ended (or could not be launched)
disk_check(t, p) ==
    IF p.kind = "launch_error"
    THEN log_result(t, N_DISK, FALSE, M_NO_DISK)
    ELSE IF p.rc = 0
    THEN LET lines == SplitOn(Strip(p.stdout), "\n") IN
         IF Len(lines) > 1
         THEN LET disk_info == SplitWS(lines[2]) IN
              IF Len(disk_info) > 3
              THEN log_result(t, N_DISK, TRUE, DiskMessage(disk_info[3], disk_info[4]))
              ELSE t
         ELSE t
    ELSE t

\* subprocess.run(['df', '-h', '/']) returns or raises; a df that never ends
\* never returns, as the call has no timeout
check_disk_space ==
    /\ pc = "df"
    /\ proc.status = "running"
    /\ proc.kind # "hang"
    /\ Store(disk_check(Tally, proc))
    /\ proc' = Finished(proc)
    /\ pc' = "node"
    /\ UNCHANGED <<cwd, original_dir, fs, gpu_env, verdict, success, exit_code, hints>>

-----------------------------------------------------------------------------
(* The probes that go through run_command. *)

ProbePcs == {"node", "npm", "pnpm", "git", "cli_version", "cli_help",
             "ping", "curl", "npm_ping"}

Command(at) ==
    CASE at = "node" -> "node --version"
      [] at = "npm" -> "npm --version"
      [] at = "pnpm" -> "pnpm --version"
      [] at = "git" -> "git --version"
      [] at = "cli_version" -> "pnpm aeonsage --version"
      [] at = "cli_help" -> "pnpm aeonsage --help"
      [] at = "ping" -> "ping -c 1 8.8.8.8"
      [] at = "curl" -> "curl -s https://github.com --max-time 10"
      [] at = "npm_ping" -> "npm ping"

\* lines 33-38: run_command spawns its command
subprocess_run ==
    /\ pc \in ProbePcs
    /\ proc.status # "running"
    /\ \E o \in ProbeOutcomes : proc' = Running(Command(pc), o)
    /\ UNCHANGED <<results, passed, failed, pc, cwd, original_dir, fs, gpu_env,
                   verdict, success, exit_code, hints>>

-----------------------------------------------------------------------------
(* Group 2: the runtime tools. *)

NodeName(at) ==
    CASE at = "node" -> N_NODE
      [] at = "npm" -> N_NPM
      [] at = "pnpm" -> N_PNPM
      [] at = "git" -> N_GIT

AfterNode(at) ==
    CASE at = "node" -> "npm"
      [] at = "npm" -> "pnpm"
      [] at = "pnpm" -> "git"
      [] at = "git" -> "project_dir"

\* lines 84-97: one tool's probe returns and its result is recorded
check_node_environment ==
    /\ pc \in {"node", "npm", "pnpm", "git"}
    /\ proc.status = "running"
    /\ LET r == run_command(proc) IN
         Store(log_result(Tally, NodeName(pc), r[1], IF r[1] THEN r[2] ELSE M_NOT_INSTALLED))
    /\ proc' = Finished(proc)
    /\ pc' = AfterNode(pc)
    /\ UNCHANGED <<cwd, original_dir, fs, gpu_env, verdict, success, exit_code, hints>>

-----------------------------------------------------------------------------
(* Group 3: the project installation. *)

\* the positions inside the try block of check_aeonsage_installation
TryPcs == {"package_json", "node_modules", "dist", "cli_version", "cli_help"}

\* a variant of restore_dir that leaves the working directory where it is
restore_dir_Skipped == cwd' = cwd

\* lines 137-139: the finally clause, os.chdir(original_dir)
restore_dir == cwd' = original_dir

\* lines 104-112: the directory test; without the directory the group returns
\* at once, with it the working directory changes
check_project_dir ==
    /\ pc = "project_dir"
    /\ LET project_exists == fs.project # "absent" /\ fs.project = "dir" IN
         /\ Store(log_result(Tally, N_PROJECT, project_exists,
                             IF project_exists THEN <<PROJECT>> ELSE M_NOT_FOUND))
         /\ IF ~project_exists
            THEN /\ pc' = "ping"
                 /\ UNCHANGED <<cwd, original_dir>>
            ELSE /\ original_dir' = cwd
                 /\ cwd' = Append(cwd, PROJECT)
                 /\ pc' = "package_json"
    /\ UNCHANGED <<proc, fs, gpu_env, verdict, success, exit_code, hints>>

\* lines 116-119: without the manifest the try block ends
check_package_json ==
    /\ pc = "package_json"
    /\ Store(log_result(Tally, N_PACKAGE, fs.package,
                        IF fs.package THEN <<"present">> ELSE <<"missing">>))
    /\ IF fs.package
       THEN pc' = "node_modules" /\ UNCHANGED cwd
       ELSE pc' = "ping" /\ restore_dir
    /\ UNCHANGED <<proc, original_dir, fs, gpu_env, verdict, success, exit_code, hints>>

\* lines 121-122
check_node_modules ==
    /\ pc = "node_modules"
    /\ Store(log_result(Tally, N_DEPS, fs.node_modules,
                        IF fs.node_modules THEN <<"done">> ELSE <<"run pnpm install">>))
    /\ pc' = "dist"
    /\ UNCHANGED <<proc, cwd, original_dir, fs, gpu_env, verdict, success, exit_code, hints>>

\* lines 125-129: without the build output the try block ends
check_dist ==
    /\ pc = "dist"
    /\ Store(log_result(Tally, N_DIST, fs.dist,
                        IF fs.dist THEN <<"built">> ELSE <<"run pnpm build">>))
    /\ IF fs.dist
       THEN pc' = "cli_version" /\ UNCHANGED cwd
       ELSE pc' = "ping" /\ restore_dir
    /\ UNCHANGED <<proc, original_dir, fs, gpu_env, verdict, success, exit_code, hints>>

\* a variant of check_cli_version that leaves the try block when the probe failed
check_cli_version_SkipsHelpOnFailure ==
    /\ pc = "cli_version"
    /\ proc.status = "running"
    /\ LET r == run_command(proc) IN
         /\ Store(log_result(Tally, N_CLI, r[1], IF r[1] THEN r[2] ELSE M_CANNOT_RUN))
         /\ IF r[1]
            THEN pc' = "cli_help" /\ UNCHANGED cwd
            ELSE pc' = "ping" /\ restore_dir
    /\ proc' = Finished(proc)
    /\ UNCHANGED <<original_dir, fs, gpu_env, verdict, success, exit_code, hints>>

\* lines 130-131: the --version probe returns
check_cli_version ==
    /\ pc = "cli_version"
    /\ proc.status = "running"
    /\ LET r == run_command(proc) IN
         Store(log_result(Tally, N_CLI, r[1], IF r[1] THEN r[2] ELSE M_CANNOT_RUN))
    /\ proc' = Finished(proc)
    /\ pc' = "cli_help"
    /\ UNCHANGED <<cwd, original_dir, fs, gpu_env, verdict, success, exit_code, hints>>

\* lines 134-139: the --help probe returns, and the try block ends
check_cli_help ==
    /\ pc = "cli_help"
    /\ proc.status = "running"
    /\ LET r == run_command(proc) IN
         Store(log_result(Tally, N_CLIHELP, r[1],
                          IF r[1] THEN <<"usable">> ELSE <<"unusable">>))
    /\ proc' = Finished(proc)
    /\ pc' = "ping"
    /\ restore_dir
    /\ UNCHANGED <<original_dir, fs, gpu_env, verdict, success, exit_code, hints>>

\* lines 114, 137-139: an exception that run_command does not catch (a
\* KeyboardInterrupt, a failing print) is raised inside the try block: the
\* finally clause runs and the exception ends the run
raise_in_try ==
    /\ pc \in TryPcs
    /\ restore_dir
    /\ pc' = "aborted"
    /\ UNCHANGED <<results, passed, failed, proc, original_dir, fs, gpu_env,
                   verdict, success, exit_code, hints>>

-----------------------------------------------------------------------------
(* Group 4: the network. *)

NetName(at) ==
    CASE at = "ping" -> N_INET
      [] at = "curl" -> N_GITHUB
      [] at = "npm_ping" -> N_REG

NetMessage(at, ok) ==
    CASE at = "ping" -> IF ok THEN <<"normal">> ELSE <<"abnormal">>
      [] at = "curl" -> IF ok THEN <<"reachable">> ELSE <<"unreachable">>
      [] at = "npm_ping" -> IF ok THEN <<"responding">> ELSE <<"no response">>

AfterNet(at) ==
    CASE at = "ping" -> "curl"
      [] at = "curl" -> "npm_ping"
      [] at = "npm_ping" -> "summary"

\* lines 146-155: one network probe returns and its result is recorded
check_network_connectivity ==
    /\ pc \in {"ping", "curl", "npm_ping"}
    /\ proc.status = "running"
    /\ LET r == run_command(proc) IN
         Store(log_result(Tally, NetName(pc), r[1], NetMessage(pc, r[1])))
    /\ proc' = Finished(proc)
    /\ pc' = AfterNet(pc)
    /\ UNCHANGED <<cwd, original_dir, fs, gpu_env, verdict, success, exit_code, hints>>

-----------------------------------------------------------------------------
(* The summary, the verdict and main. *)

CRITICAL == {N_NODE, N_PNPM, N_PROJECT, N_DEPS, N_DIST}

IsCritical(r) == r.name \in CRITICAL

\* lines 181-184: the passed flags of the recorded results with a critical name
critical_checks(res) == SelectSeq(res, IsCritical)

\* Python's all() and any() on the flags
PyAll(flags) == \A i \in 1..Len(flags) : flags[i].passed
PyAny(flags) == \E i \in 1..Len(flags) : flags[i].passed

\* a variant of Verdict that is READY as soon as one critical check passed
Verdict_AnyIsReady(res) ==
    IF PyAny(critical_checks(res)) THEN "READY"
    ELSE "NOT_CONFIGURED"

\* lines 186-194
Verdict(res) ==
    IF PyAll(critical_checks(res)) THEN "READY"
    ELSE IF PyAny(critical_checks(res)) THEN "PARTIAL"
    ELSE "NOT_CONFIGURED"

\* lines 168-194: the success rate divides by passed + failed; then the verdict
run_comprehensive_test ==
    /\ pc = "summary"
    /\ IF passed + failed = 0
       THEN /\ pc' = "aborted"
            /\ UNCHANGED <<verdict, success>>
       ELSE /\ verdict' = Verdict(results)
            /\ success' = (Verdict(results) = "READY")
            /\ pc' = "main"
    /\ UNCHANGED <<results, passed, failed, proc, cwd, original_dir, fs, gpu_env,
                   exit_code, hints>>

\* a variant of ExitStatus that is 0 for every verdict
ExitStatus_AlwaysZero(ok) == 0

\* line 207
ExitStatus(ok) == IF ok THEN 0 ELSE 1

\* lines 199-207
main ==
    /\ pc = "main"
    /\ hints' = ~success
    /\ exit_code' = ExitStatus(success)
    /\ pc' = "exited"
    /\ UNCHANGED <<results, passed, failed, proc, cwd, original_dir, fs, gpu_env,
                   verdict, success>>

-----------------------------------------------------------------------------
(* Specifications. *)

Next ==
    \/ check_system_info
    \/ check_disk_space
    \/ subprocess_run
    \/ check_node_environment
    \/ check_project_dir
    \/ check_package_json
    \/ check_node_modules
    \/ check_dist
    \/ check_cli_version
    \/ check_cli_help
    \/ check_network_connectivity
    \/ run_comprehensive_test
    \/ main

\* the run, no exception raised from outside the probes
Spec == Init /\ [][Next]_vars

\* the run goes on whenever it can: the program is one thread that is never
\* suspended, and a probe's timeout always fires
FairSpec == Init /\ [][Next]_vars /\ WF_vars(Next)

NextExc == Next \/ raise_in_try

\* the run, where an exception may be raised inside the try block
SpecExc == Init /\ [][NextExc]_vars

-----------------------------------------------------------------------------
(* Vocabulary of the properties. *)

\* the positions of the results named n
Idx(n) == {i \in 1..Len(results) : results[i].name = n}
Count(n) == Cardinality(Idx(n))

\* a result named n was recorded as a pass
RecordedPass(n) == \E i \in Idx(n) : results[i].passed

\* the positions after check_aeonsage_installation has returned
AfterInstall == {"ping", "curl", "npm_ping", "summary", "main", "exited"}

\* the verdict has been computed
Judged == pc \in {"main", "exited"}

\* the command spawned last has ended, ran under run_command, and was cmd
Returned(cmd) == proc.cmd = cmd /\ proc.status = "finished"

\* the command spawned last was launched, ended in time and exited with 0
ExitedZero == proc.kind = "exit" /\ proc.rc = 0

\* m is s without its leading and trailing whitespace
IsTrimOf(m, s) ==
    /\ \E i \in 1..(Len(s) + 1) : \E j \in 0..Len(s) :
          /\ m = SubSeq(s, i, j)
          /\ \A k \in 1..(i - 1) : s[k] \in Whitespace
          /\ \A k \in (j + 1)..Len(s) : s[k] \in Whitespace
    /\ m # <<>> => m[1] \notin Whitespace /\ m[Len(m)] \notin Whitespace

Last(q) == q[Len(q)]

-----------------------------------------------------------------------------
(* The claims. *)

\* C1: once the verdict is computed it is a function of the five critical
\* checks, a check that was never recorded counting as failed: READY iff all
\* five were recorded as passes, PARTIAL iff some but not all were,
\* NOT_CONFIGURED iff none was; and the run returns True iff READY.
C1_VerdictCountsAbsentAsFailed ==
    Judged =>
        LET passing == {n \in CRITICAL : RecordedPass(n)} IN
        /\ verdict = IF passing = CRITICAL THEN "READY"
                     ELSE IF passing # {} THEN "PARTIAL"
                     ELSE "NOT_CONFIGURED"
        /\ success = (passing = CRITICAL)

\* C2: once df has returned or failed to launch, exactly one result named
\* "disk space" is recorded: a pass with the used and available fields when df
\* exited with 0 and its second line has at least four fields, the failure
\* "no disk information" in every other case.
C2_DiskCheckAlwaysRecordsOneResult ==
    Returned("df -h /") =>
        LET lines == SplitOn(Strip(proc.stdout), "\n")
            parsed == /\ ExitedZero
                      /\ Len(lines) > 1
                      /\ Len(SplitWS(lines[2])) > 3
        IN /\ Count(N_DISK) = 1
           /\ \A i \in Idx(N_DISK) :
                 /\ results[i].passed = parsed
                 /\ results[i].message =
                       IF parsed
                       THEN DiskMessage(SplitWS(lines[2])[3], SplitWS(lines[2])[4])
                       ELSE M_NO_DISK

\* C3: when main has returned, the exit status is 0 iff the verdict is READY
\* and 1 for PARTIAL and for NOT_CONFIGURED, and the remediation block was
\* printed iff the exit status is 1.
C3_ExitStatusZeroIffReady ==
    pc = "exited" =>
        /\ exit_code \in {0, 1}
        /\ exit_code = 0 <=> verdict = "READY"
        /\ exit_code = 1 <=> verdict \in {"PARTIAL", "NOT_CONFIGURED"}
        /\ hints <=> exit_code = 1

C3_Witness ==
    /\ pc = "exited"
    /\ verdict = "READY"
    /\ exit_code = 0
    /\ ~hints

\* C4: in every state of a run, passed + failed is the number of results,
\* passed is the number of results flagged true and failed the number of
\* results flagged false.
C4_CountersMatchResults ==
    /\ passed + failed = Len(results)
    /\ passed = Cardinality({i \in 1..Len(results) : results[i].passed})
    /\ failed = Cardinality({i \in 1..Len(results) : ~results[i].passed})

C4_Witness ==
    /\ pc = "summary"
    /\ Count(N_CLIHELP) = 1
    /\ passed >= 4
    /\ failed >= 4

\* C5: the working directory differs from the start directory only inside the
\* try block of check_aeonsage_installation: after the group has returned, by
\* any of its exits, and after an exception raised inside the try block, it is
\* the directory the run started in.
C5_WorkingDirectoryRestored ==
    pc \notin TryPcs => cwd = START_DIR

C5_Witness ==
    /\ pc = "aborted"
    /\ RecordedPass(N_PROJECT)
    /\ Count(N_CLI) = 1
    /\ cwd = START_DIR

\* C6: whenever a spawned command never ends, the run still reaches its verdict.
C6_HungCommandStillReachesVerdict ==
    (proc.status = "running" /\ proc.kind = "hang") ~> (verdict # "none")

\* C7: without the project directory the working directory never changes; the
\* installation group records the one failed result "project directory" with
\* "not found" and nothing for package.json, dependencies, build output, CLI
\* tool or CLI help; the verdict is not READY, it is NOT_CONFIGURED when the
\* Node.js and pnpm checks failed too, and the exit status is 1.
C7_AbsentProjectDirectory ==
    fs.project # "dir" =>
        /\ cwd = START_DIR
        /\ pc \in AfterInstall =>
              /\ Count(N_PROJECT) = 1
              /\ \A i \in Idx(N_PROJECT) :
                    ~results[i].passed /\ results[i].message = M_NOT_FOUND
              /\ \A n \in {N_PACKAGE, N_DEPS, N_DIST, N_CLI, N_CLIHELP} : Count(n) = 0
        /\ Judged =>
              /\ verdict # "READY"
              /\ ~success
              /\ ~RecordedPass(N_NODE) /\ ~RecordedPass(N_PNPM) => verdict = "NOT_CONFIGURED"
        /\ pc = "exited" => exit_code = 1

C7_Witness ==
    /\ pc = "exited"
    /\ fs.project = "absent"
    /\ RecordedPass(N_NODE)
    /\ verdict = "PARTIAL"
    /\ exit_code = 1

\* C8: each of the probes node, npm, pnpm, git, whatever it did, leaves one
\* result, in that order; the result is a pass iff the command was launched,
\* ended in time and exited with 0, and then its message is the trimmed
\* standard output; otherwise the message is "not installed"; and the run is
\* at the following check.
C8_RuntimeToolResults ==
    /\ \A at \in {"node", "npm", "pnpm", "git"} :
          Returned(Command(at)) =>
              /\ pc # at
              /\ Count(NodeName(at)) = 1
              /\ \A i \in Idx(NodeName(at)) :
                    /\ results[i].passed = ExitedZero
                    /\ IF ExitedZero
                       THEN IsTrimOf(results[i].message, proc.stdout)
                       ELSE results[i].message = M_NOT_INSTALLED
              /\ pc = AfterNode(at) => Last(results).name = NodeName(at)
    /\ pc = "project_dir" =>
          /\ Len(results) >= 4
          /\ [i \in 1..4 |-> results[Len(results) - 4 + i].name]
                = <<N_NODE, N_NPM, N_PNPM, N_GIT>>
    /\ pc # "aborted"

C8_Witness ==
    /\ pc = "project_dir"
    /\ proc.kind = "hang"
    /\ RecordedPass(N_NODE)
    /\ ~RecordedPass(N_NPM)
    /\ ~RecordedPass(N_PNPM)
    /\ ~RecordedPass(N_GIT)

\* C9: after the installation group, "CLI tool" and "CLI help" are recorded
\* iff the project directory, the manifest and the build output all exist,
\* once each and "CLI tool" right before "CLI help"; each is a pass iff its own
\* probe exited with 0, and a failed --version probe has "cannot execute".
C9_CliChecksIndependent ==
    /\ pc \in AfterInstall =>
          LET built == fs.project = "dir" /\ fs.package /\ fs.dist IN
          /\ Count(N_CLI) = (IF built THEN 1 ELSE 0)
          /\ Count(N_CLIHELP) = (IF built THEN 1 ELSE 0)
          /\ \A i \in Idx(N_CLI) : i + 1 \in Idx(N_CLIHELP)
    /\ Returned(Command("cli_version")) =>
          /\ pc = "cli_help"
          /\ Last(results).name = N_CLI
          /\ Last(results).passed = ExitedZero
          /\ ~ExitedZero => Last(results).message = M_CANNOT_RUN
    /\ Returned(Command("cli_help")) =>
          /\ Len(results) >= 2
          /\ Last(results).name = N_CLIHELP
          /\ Last(results).passed = ExitedZero
          /\ results[Len(results) - 1].name = N_CLI

C9_Witness ==
    /\ Returned(Command("cli_help"))
    /\ ExitedZero
    /\ Last(results).passed
    /\ ~RecordedPass(N_CLI)

\* C10: when the success rate is computed, the results start with the three
\* unconditional passes Python version, operating system, architecture, so
\* passed + failed is positive; the division never fails.
C10_SuccessRateDenominatorPositive ==
    /\ pc = "summary" =>
          /\ Len(results) >= 3
          /\ [i \in 1..3 |-> results[i].name] = <<N_PYTHON, N_OS, N_ARCH>>
          /\ \A i \in 1..3 : results[i].passed
          /\ passed >= 3
          /\ passed + failed > 0
    /\ pc # "aborted"

C10_Witness ==
    /\ pc = "summary"
    /\ passed = 3
    /\ Count(N_DISK) = 0

====
